---- MODULE Spec2Model ----
(***************************************************************************)
(* conerror: the Error value with its chaining algorithm (src/src/lib.rs)  *)
(* and the #[conerror] attribute macro (src/conerror_macro/src/lib.rs).    *)
(*                                                                         *)
(* SpecError  runs the operations of the Error value on a few values.      *)
(* SpecMacro  runs the macro on one input: parse, visit, emit.             *)
(***************************************************************************)
EXTENDS Integers, Sequences, FiniteSets, TLC

VARIABLES
    vals,     \* slot -> the failure value held there (none, foreign or Error)
    hist,     \* slot -> how the value was made and what was applied to it since
    pc,       \* macro: "idle", "start", "visit", "emit", "done", "error", "panic"
    input,    \* macro: the token stream handed to the macro
    item,     \* macro: the parsed Item, rewritten in place by the visitor
    visitor,  \* macro: the MapErr visitor (self_ty, ident)
    next_item,\* macro: index of the next impl item visit_item_impl_mut visits
    output    \* macro: what the macro returns to the compiler

errVars == <<vals, hist>>
macroVars == <<pc, input, item, visitor, next_item, output>>
vars == <<vals, hist, pc, input, item, visitor, next_item, output>>

(***************************************************************************)
(* Bounds                                                                  *)
(***************************************************************************)
MaxFrames == 3     \* frames passed to new and chain, all values together
MaxContext == 2    \* context strings pushed, all values together
MaxNodes == 6      \* nodes of the body expression of an input function
MaxMethods == 2    \* items of an input impl block
MaxAttrs == 3      \* attributes on the methods of an input impl block, together

\* Two values alive at the same time: the one followed and an unrelated one.
Slots == {"v", "w"}

(***************************************************************************)
(* Option<T>                                                               *)
(***************************************************************************)
None == [tag |-> "None"]
Some(v) == [tag |-> "Some", v |-> v]

(***************************************************************************)
(* Location and its Display: "{file}:{line} {module}::{func}()"            *)
(***************************************************************************)
Location(file, line, func, module) ==
    [file |-> file, line |-> line, func |-> func, module |-> module]

Digit(d) ==
    CASE d = 0 -> "0" [] d = 1 -> "1" [] d = 2 -> "2" [] d = 3 -> "3"
      [] d = 4 -> "4" [] d = 5 -> "5" [] d = 6 -> "6" [] d = 7 -> "7"
      [] d = 8 -> "8" [] d = 9 -> "9"

RECURSIVE U32ToString(_)
U32ToString(n) ==
    IF n < 10 THEN Digit(n) ELSE U32ToString(n \div 10) \o Digit(n % 10)

LocationDisplay(l) ==
    l.file \o ":" \o U32ToString(l.line) \o " " \o l.module \o "::" \o l.func \o "()"

\* The frames the instrumented call sites of the scenario pass: C fails first,
\* then B and A propagate.
Frames ==
    { Location("src/main.rs", 31, "C", "app"),
      Location("src/main.rs", 24, "B", "app"),
      Location("src/main.rs", 9, "A", "app") }

(***************************************************************************)
(* Failure values.  A foreign value is any std::error::Error that is not   *)
(* conerror::Error; all the library sees of it is its Display text.        *)
(***************************************************************************)
NoValue == [ty |-> "none"]
Foreign(text) == [ty |-> "foreign", text |-> text]
\* the failure each of the two values starts from
ForeignValues == [v |-> Foreign("boom"), w |-> Foreign("invalid digit found in string")]
ContextStrings == {"a", "b"}

Inner(source, location, context) ==
    [ty |-> "Error", source |-> source, location |-> location, context |-> context]

IsError(v) == v.ty = "Error"

\* Error::new
ErrorNew(error, file, line, func, module) ==
    Inner(error, Some(<<Location(file, line, func, module)>>), <<>>)

\* Error::plain
ErrorPlain(error) == Inner(error, None, <<>>)

\* chain putting the new frame first instead of last
ErrorChainPrepend(error, file, line, func, module) ==
    IF IsError(error)
    THEN IF error.location.tag = "Some"
         THEN [error EXCEPT !.location =
                  Some(<<Location(file, line, func, module)>> \o error.location.v)]
         ELSE error
    ELSE ErrorNew(error, file, line, func, module)

\* chain starting a location sequence on a value that has none
ErrorChainTracksPlain(error, file, line, func, module) ==
    IF IsError(error)
    THEN [error EXCEPT !.location =
             Some((IF error.location.tag = "Some" THEN error.location.v ELSE <<>>)
                  \o <<Location(file, line, func, module)>>)]
    ELSE ErrorNew(error, file, line, func, module)

\* chain wrapping a foreign value without its first frame
ErrorChainForeignPlain(error, file, line, func, module) ==
    IF IsError(error)
    THEN IF error.location.tag = "Some"
         THEN [error EXCEPT !.location =
                  Some(Append(error.location.v, Location(file, line, func, module)))]
         ELSE error
    ELSE ErrorPlain(error)

\* chain appending the frame and dropping the context pushed so far
ErrorChainDropsContext(error, file, line, func, module) ==
    IF IsError(error)
    THEN IF error.location.tag = "Some"
         THEN [error EXCEPT !.location =
                  Some(Append(error.location.v, Location(file, line, func, module))),
                            !.context = <<>>]
         ELSE error
    ELSE ErrorNew(error, file, line, func, module)

\* Error::chain
ErrorChain(error, file, line, func, module) ==
    IF IsError(error)
    THEN IF error.location.tag = "Some"
         THEN [error EXCEPT !.location =
                  Some(Append(error.location.v, Location(file, line, func, module)))]
         ELSE error
    ELSE ErrorNew(error, file, line, func, module)

\* Error::context
ErrorContext(self, context) ==
    [self EXCEPT !.context = Append(self.context, context)]

\* Error::location
ErrorLocation(self) == self.location

\* self.0.context.iter().rev(), each followed by ": "
RECURSIVE ContextPrefix(_, _)
ContextPrefix(context, i) ==
    IF i = 0 THEN "" ELSE context[i] \o ": " \o ContextPrefix(context, i - 1)

RECURSIVE FramesDisplay(_, _)
FramesDisplay(location, i) ==
    IF i > Len(location) THEN ""
    ELSE "\n#" \o U32ToString(i - 1) \o " " \o LocationDisplay(location[i])
         \o FramesDisplay(location, i + 1)

\* Display of a boxed cause: a foreign value's own text, or Display for Error
RECURSIVE SourceToString(_)
SourceToString(v) ==
    IF IsError(v)
    THEN ContextPrefix(v.context, Len(v.context)) \o SourceToString(v.source)
         \o (IF v.location.tag = "Some" THEN FramesDisplay(v.location.v, 1) ELSE "")
    ELSE v.text

\* message walking the context first-pushed-first (iter() without rev())
RECURSIVE ContextPrefixForward(_, _)
ContextPrefixForward(context, i) ==
    IF i > Len(context) THEN ""
    ELSE context[i] \o ": " \o ContextPrefixForward(context, i + 1)

ErrorMessageForward(self) ==
    ContextPrefixForward(self.context, 1) \o SourceToString(self.source)

\* Error::message
ErrorMessage(self) ==
    ContextPrefix(self.context, Len(self.context)) \o SourceToString(self.source)

(***************************************************************************)
(* Sizes, for the bounds                                                   *)
(***************************************************************************)
RECURSIVE SumOver(_, _)
SumOver(F(_), S) ==
    IF S = {} THEN 0
    ELSE LET s == CHOOSE x \in S : TRUE IN F(s) + SumOver(F, S \ {s})

\* what a slot's value has been given so far, the frames a plain value ignored included
SlotFrames(s) == Len(hist[s].frames)
SlotContext(s) == Len(hist[s].ctxs)

TotalFrames == SumOver(SlotFrames, Slots)
TotalContext == SumOver(SlotContext, Slots)

(***************************************************************************)
(* The history of a slot's value                                           *)
(***************************************************************************)
NoHist == [origin |-> "none", cause |-> NoValue, frames |-> <<>>, chains |-> 0, ctxs |-> <<>>]

MacroIdle ==
    /\ pc = "idle"
    /\ input = <<>>
    /\ item = <<>>
    /\ visitor = <<>>
    /\ next_item = 0
    /\ output = <<>>

InitError ==
    /\ vals = [s \in Slots |-> NoValue]
    /\ hist = [s \in Slots |-> NoHist]
    /\ MacroIdle

\* A fallible operation fails with a foreign failure value.
Fail(s) ==
    /\ vals[s] = NoValue
    /\ vals' = [vals EXCEPT ![s] = ForeignValues[s]]
    /\ hist' = [hist EXCEPT ![s] =
                  [NoHist EXCEPT !.origin = "foreign", !.cause = ForeignValues[s]]]
    /\ UNCHANGED macroVars

\* The value goes out of use.
Drop(s) ==
    /\ vals[s] # NoValue
    /\ vals' = [vals EXCEPT ![s] = NoValue]
    /\ hist' = [hist EXCEPT ![s] = NoHist]
    /\ UNCHANGED macroVars

New(s, f) ==
    /\ vals[s].ty = "foreign"
    /\ TotalFrames < MaxFrames
    /\ vals' = [vals EXCEPT ![s] = ErrorNew(vals[s], f.file, f.line, f.func, f.module)]
    /\ hist' = [hist EXCEPT ![s] =
                  [NoHist EXCEPT !.origin = "new", !.cause = vals[s], !.frames = <<f>>]]
    /\ UNCHANGED macroVars

Plain(s) ==
    /\ vals[s].ty = "foreign"
    /\ vals' = [vals EXCEPT ![s] = ErrorPlain(vals[s])]
    /\ hist' = [hist EXCEPT ![s] = [NoHist EXCEPT !.origin = "plain", !.cause = vals[s]]]
    /\ UNCHANGED macroVars

Chain(s, f) ==
    /\ vals[s] # NoValue
    /\ TotalFrames < MaxFrames
    /\ vals' = [vals EXCEPT ![s] = ErrorChain(vals[s], f.file, f.line, f.func, f.module)]
    /\ hist' = [hist EXCEPT ![s] =
                  IF IsError(vals[s])
                  THEN [@ EXCEPT !.frames = Append(@, f), !.chains = @ + 1]
                  ELSE [NoHist EXCEPT !.origin = "chain", !.cause = vals[s],
                                      !.frames = <<f>>]]
    /\ UNCHANGED macroVars

Context(s, c) ==
    /\ IsError(vals[s])
    /\ TotalContext < MaxContext
    /\ vals' = [vals EXCEPT ![s] = ErrorContext(vals[s], c)]
    /\ hist' = [hist EXCEPT ![s].ctxs = Append(@, c)]
    /\ UNCHANGED macroVars

NextError ==
    \/ \E s \in Slots : Fail(s)
    \/ \E s \in Slots : Drop(s)
    \/ \E s \in Slots, f \in Frames : New(s, f)
    \/ \E s \in Slots : Plain(s)
    \/ \E s \in Slots, f \in Frames : Chain(s, f)
    \/ \E s \in Slots, c \in ContextStrings : Context(s, c)

SpecError == InitError /\ [][NextError]_vars

(***************************************************************************)
(* Properties of the Error value                                           *)
(***************************************************************************)
FrameC == Location("src/main.rs", 31, "C", "app")
FrameB == Location("src/main.rs", 24, "B", "app")
FrameA == Location("src/main.rs", 9, "A", "app")

Front(q) == SubSeq(q, 1, Len(q) - 1)

\* C1: a value made by new with frame t0 (or by the first chain of a foreign
\* value) and then chained k times with t1..tk has location() present and
\* equal to <<t0, t1, ..., tk>>: k+1 frames, oldest first.  Passing C, B, A in
\* that order gives the frames C, B, A.
C1_LocationIsChainOrder ==
    \A s \in Slots :
        hist[s].origin \in {"new", "chain"} =>
            /\ ErrorLocation(vals[s]).tag = "Some"
            /\ ErrorLocation(vals[s]).v = hist[s].frames
            /\ Len(ErrorLocation(vals[s]).v) = hist[s].chains + 1
            /\ (hist[s].frames = <<FrameC, FrameB, FrameA>> =>
                    /\ ErrorLocation(vals[s]).v[1].func = "C"
                    /\ ErrorLocation(vals[s]).v[2].func = "B"
                    /\ ErrorLocation(vals[s]).v[3].func = "A")

C1_Witness ==
    /\ hist["v"].origin = "new"
    /\ hist["v"].chains = 2
    /\ hist["v"].frames = <<FrameC, FrameB, FrameA>>

\* C2: a value made by plain has location() absent, however many chain calls
\* were applied to it since.
C2_PlainStaysUntracked ==
    \A s \in Slots :
        hist[s].origin = "plain" => ErrorLocation(vals[s]) = None

C2_Witness ==
    /\ hist["v"].origin = "plain"
    /\ hist["v"].chains = 2
    /\ hist["v"].frames[1] # hist["v"].frames[2]

\* C3: chain applied to a foreign value v with frame f gives what new(v, f)
\* gives: location present with the one frame f, empty context, source v,
\* whatever the other value has been through.
C3_ChainOfForeignIsNew ==
    \A s \in Slots :
        (hist[s].origin = "chain" /\ hist[s].chains = 0 /\ hist[s].ctxs = <<>>) =>
            LET f == hist[s].frames[1] IN
            /\ Len(hist[s].frames) = 1
            /\ vals[s] = ErrorNew(hist[s].cause, f.file, f.line, f.func, f.module)
            /\ ErrorLocation(vals[s]) = Some(<<f>>)
            /\ vals[s].context = <<>>
            /\ vals[s].source = hist[s].cause
            /\ hist[s].cause.ty = "foreign"

C3_Witness ==
    /\ hist["v"].origin = "chain" /\ hist["v"].chains = 0 /\ hist["v"].ctxs = <<>>
    /\ hist["w"].origin = "new" /\ hist["w"].chains = 1 /\ Len(hist["w"].ctxs) = 1

\* the rendering C4 states: cn: ... c1: s
RECURSIVE Rendered(_, _)
Rendered(cs, s) ==
    IF cs = <<>> THEN s ELSE cs[Len(cs)] \o ": " \o Rendered(Front(cs), s)

\* C4: message() is the context strings, last pushed first, each followed by
\* ": ", then the cause's display text, and no location frame: "a" then "b"
\* pushed on cause "boom" gives "b: a: boom"; no context gives the cause's text.
C4_MessageIsLifo ==
    \A s \in Slots :
        IsError(vals[s]) =>
            /\ ErrorMessage(vals[s]) = Rendered(hist[s].ctxs, hist[s].cause.text)
            /\ (hist[s].ctxs = <<"a", "b">> /\ hist[s].cause.text = "boom") =>
                    ErrorMessage(vals[s]) = "b: a: boom"
            /\ hist[s].ctxs = <<>> => ErrorMessage(vals[s]) = hist[s].cause.text

C4_Witness ==
    /\ IsError(vals["v"])
    /\ hist["v"].ctxs = <<"a", "b">>
    /\ hist["v"].cause.text = "boom"
    /\ Len(hist["v"].frames) > 0
    /\ ErrorLocation(vals["v"]).tag = "Some"

\* what one step of chain on an Error value, and of context, may change
ChainEffect(s, f) ==
    (Chain(s, f) /\ IsError(vals[s])) =>
        /\ vals'[s].source = vals[s].source
        /\ vals'[s].context = vals[s].context
        /\ ErrorMessage(vals'[s]) = ErrorMessage(vals[s])
        /\ IF vals[s].location.tag = "Some"
           THEN /\ vals'[s].location.tag = "Some"
                /\ Len(vals'[s].location.v) = Len(vals[s].location.v) + 1
                /\ SubSeq(vals'[s].location.v, 1, Len(vals[s].location.v))
                       = vals[s].location.v
                /\ vals'[s].location.v[Len(vals'[s].location.v)] = f
           ELSE vals'[s].location = None
        /\ \A t \in Slots \ {s} : vals'[t] = vals[t]

ContextEffect(s, c) ==
    Context(s, c) =>
        /\ vals'[s].source = vals[s].source
        /\ vals'[s].location = vals[s].location
        /\ vals'[s].context = Append(vals[s].context, c)
        /\ \A t \in Slots \ {s} : vals'[t] = vals[t]

LocationNonEmpty ==
    \A s \in Slots :
        (IsError(vals[s]) /\ vals[s].location.tag = "Some") => Len(vals[s].location.v) >= 1

\* C10: chain on an Error value leaves the cause and the context as they are
\* (message() too) and, when location is present, keeps the earlier frames in
\* place and adds one frame at the end; context leaves the cause and the
\* location as they are and adds one string at the end of the context stack.
\* A present location sequence is never empty.
C10_AppendOnly ==
    /\ []LocationNonEmpty
    /\ [][/\ \A s \in Slots, f \in Frames : ChainEffect(s, f)
          /\ \A s \in Slots, c \in ContextStrings : ContextEffect(s, c)]_vars

C10_Witness ==
    /\ hist["v"].origin = "new"
    /\ hist["v"].chains = 1
    /\ hist["v"].ctxs = <<"a", "b">>
    /\ Len(vals["v"].location.v) = 2

(***************************************************************************)
(* The macro: syntax trees                                                 *)
(***************************************************************************)
AttrNames == {"conerror", "inline"}

Path == [k |-> "path"]                                    \* x
Try(e) == [k |-> "try", expr |-> e]                       \* e?
Call(args) == [k |-> "call", args |-> args]               \* f(a, b)
ModulePath == [k |-> "module_path"]                       \* module_path!()
TypeName(ty) == [k |-> "type_name", ty |-> ty]            \* std::any::type_name::<T>()
\* |err| conerror::Error::chain(err, file!(), line!(), #ident, #module)
ChainClosure(ident, module) == [k |-> "chain", func |-> ident, module |-> module]
\* #expr.map_err(<closure>)
MapErrCall(receiver, closure) == [k |-> "map_err", receiver |-> receiver, closure |-> closure]
ItemFn(ident, block) == [k |-> "item_fn", ident |-> ident, block |-> block]
ItemImpl(self_ty, items) == [k |-> "item_impl", self_ty |-> self_ty, items |-> items]
ImplItemFn(attrs, ident, block) ==
    [k |-> "impl_item_fn", attrs |-> attrs, ident |-> ident, block |-> block]

(***************************************************************************)
(* The MapErr visitor.  A visit gives the rewritten node and the visitor   *)
(* after it; panicked records a panic of the macro (unwrap, Vec::remove).  *)
(***************************************************************************)
MapErrNew(self_ty, ident) == [self_ty |-> self_ty, ident |-> ident, panicked |-> FALSE]

Visited(n, st) == [node |-> n, st |-> st]
Panicked(n, st) == [node |-> n, st |-> [st EXCEPT !.panicked = TRUE]]

\* indices of the attributes whose path is conerror (lines 74-79)
MarkerIndices(attrs) ==
    SelectSeq([j \in 1..Len(attrs) |-> j - 1], LAMBDA j : attrs[j + 1] = "conerror")

\* Vec::remove(idx): panics when idx is out of bounds
VecRemove(v, idx) == SubSeq(v, 1, idx) \o SubSeq(v, idx + 2, Len(v))

\* for idx in indices { i.attrs.remove(idx); } (lines 84-86)
RECURSIVE RemoveAll(_, _)
RemoveAll(attrs, indices) ==
    IF indices = <<>> THEN [attrs |-> attrs, panicked |-> FALSE]
    ELSE IF indices[1] >= Len(attrs) THEN [attrs |-> attrs, panicked |-> TRUE]
    ELSE RemoveAll(VecRemove(attrs, indices[1]), Tail(indices))

RECURSIVE Visit(_, _)
RECURSIVE VisitSeq(_, _)
RECURSIVE VisitExprTry(_, _)
RECURSIVE VisitImplItemFn(_, _)

\* visit_expr_try_mut without the walk into the rewritten expression
VisitExprTryNoWalk(i, st) ==
    IF st.ident.tag = "None" THEN Panicked(i, st)
    ELSE LET module == IF st.self_ty.tag = "Some" THEN TypeName(st.self_ty.v)
                       ELSE ModulePath
         IN Visited([i EXCEPT !.expr = MapErrCall(i.expr, ChainClosure(st.ident.v, module))],
                    st)

\* MapErr::visit_expr_try_mut
VisitExprTry(i, st) ==
    IF st.ident.tag = "None" THEN Panicked(i, st)
    ELSE LET module == IF st.self_ty.tag = "Some" THEN TypeName(st.self_ty.v)
                       ELSE ModulePath
             expr == MapErrCall(i.expr, ChainClosure(st.ident.v, module))
             r == Visit(expr, st)
         IN Visited([i EXCEPT !.expr = r.node], r.st)

\* visit_impl_item_fn_mut without the early return for a method with no marker
VisitImplItemFnNoReturn(i, st) ==
    LET removed == RemoveAll(i.attrs, MarkerIndices(i.attrs))
        st1 == [st EXCEPT !.ident = Some(i.ident)]
        r == VisitSeq(i.block, st1)
    IN IF removed.panicked THEN Panicked([i EXCEPT !.attrs = removed.attrs], st)
       ELSE Visited([i EXCEPT !.attrs = removed.attrs, !.block = r.nodes], r.st)

\* MapErr::visit_impl_item_fn_mut
VisitImplItemFn(i, st) ==
    LET indices == MarkerIndices(i.attrs) IN
    IF indices = <<>> THEN Visited(i, st)
    ELSE LET removed == RemoveAll(i.attrs, indices)
             st1 == [st EXCEPT !.ident = Some(i.ident)]
             r == VisitSeq(i.block, st1)
         IN IF removed.panicked THEN Panicked([i EXCEPT !.attrs = removed.attrs], st)
            ELSE Visited([i EXCEPT !.attrs = removed.attrs, !.block = r.nodes], r.st)

\* the children of a sequence, in order, each with the visitor the previous left
VisitSeq(nodes, st) ==
    IF nodes = <<>> THEN [nodes |-> <<>>, st |-> st]
    ELSE LET r == Visit(nodes[1], st)
             rest == VisitSeq(Tail(nodes), r.st)
         IN IF r.st.panicked THEN [nodes |-> <<r.node>> \o Tail(nodes), st |-> r.st]
            ELSE [nodes |-> <<r.node>> \o rest.nodes, st |-> rest.st]

\* syn::visit_mut's walk, with the two methods MapErr overrides
Visit(n, st) ==
    CASE n.k = "try" -> VisitExprTry(n, st)
      [] n.k = "impl_item_fn" -> VisitImplItemFn(n, st)
      [] n.k = "call" ->
            LET r == VisitSeq(n.args, st) IN Visited([n EXCEPT !.args = r.nodes], r.st)
      [] n.k = "map_err" ->
            LET r == VisitSeq(<<n.receiver, n.closure>>, st)
            IN Visited([n EXCEPT !.receiver = r.nodes[1], !.closure = r.nodes[2]], r.st)
      [] n.k = "item_fn" ->
            LET r == VisitSeq(n.block, st) IN Visited([n EXCEPT !.block = r.nodes], r.st)
      [] n.k = "item_impl" ->
            LET r == VisitSeq(n.items, st) IN Visited([n EXCEPT !.items = r.nodes], r.st)
      [] OTHER -> Visited(n, st)

(***************************************************************************)
(* Item::parse                                                             *)
(***************************************************************************)
Ok(v) == [tag |-> "Ok", v |-> v]
Err(e) == [tag |-> "Err", e |-> e]

ParseItemFn(tokens) ==
    IF tokens.syntax = "fn" THEN Ok(tokens.tree) ELSE Err(<<"expected fn">>)
ParseItemImpl(tokens) ==
    IF tokens.syntax = "impl" THEN Ok(tokens.tree) ELSE Err(<<"expected impl">>)

\* syn::Error::combine: the messages of the other error follow
Combine(e1, e) == e1 \o e

ItemParse(tokens) ==
    LET f == ParseItemFn(tokens) IN
    IF f.tag = "Ok" THEN Ok([kind |-> "Fn", v |-> f.v])
    ELSE LET i == ParseItemImpl(tokens) IN
         IF i.tag = "Ok" THEN Ok([kind |-> "Impl", v |-> i.v])
         ELSE Err(Combine(i.e, f.e))

(***************************************************************************)
(* The inputs                                                              *)
(***************************************************************************)
RECURSIVE ExprsOfSize(_)
ExprsOfSize(n) ==
    IF n = 1 THEN {Path}
    ELSE {Try(e) : e \in ExprsOfSize(n - 1)}
         \cup {Call(<<e>>) : e \in ExprsOfSize(n - 1)}
         \cup UNION {{Call(<<a, b>>) : a \in ExprsOfSize(j), b \in ExprsOfSize(n - 1 - j)}
                     : j \in 1..(n - 2)}

Exprs(maxNodes) == UNION {ExprsOfSize(n) : n \in 1..maxNodes}

\* blocks with items declared inside a body
NestedImplBlock ==
    <<ItemImpl("H", <<ImplItemFn(<<"conerror">>, "inner", <<Try(Path)>>)>>), Try(Path)>>

MethodBlocks ==
    { <<Path>>, <<Try(Path)>>, <<Try(Call(<<Try(Path)>>))>>, NestedImplBlock }

\* the attribute lists of length n, and of length at most n
RECURSIVE AttrListsOfLen(_)
AttrListsOfLen(n) ==
    IF n = 0 THEN {<<>>}
    ELSE LET shorter == AttrListsOfLen(n - 1)
         IN {<<a>> \o l : a \in AttrNames, l \in shorter}

AttrLists(n) == UNION {AttrListsOfLen(j) : j \in 0..n}

MethodName(j) == "m" \o U32ToString(j)

\* the item lists of at most n more items, the j-th item first, with at most
\* k attributes together
RECURSIVE ImplItems(_, _, _)
ImplItems(j, n, k) ==
    IF n = 0 THEN {<<>>}
    ELSE {<<>>}
         \cup UNION {{<<ImplItemFn(a, MethodName(j), b)>> \o rest :
                        b \in MethodBlocks, rest \in ImplItems(j + 1, n - 1, k - Len(a))}
                     : a \in AttrLists(k)}

FnInputs(maxNodes) ==
    {[syntax |-> "fn", tree |-> ItemFn("run", <<e>>)] : e \in Exprs(maxNodes)}
    \cup {[syntax |-> "fn", tree |-> ItemFn("run", NestedImplBlock)]}
ImplInputs(maxMethods, maxAttrs) ==
    {[syntax |-> "impl", tree |-> ItemImpl("T", items)] :
        items \in ImplItems(1, maxMethods, maxAttrs)}
OtherInputs == {[syntax |-> "struct"], [syntax |-> "expr"]}

(***************************************************************************)
(* The macro's run on one input                                            *)
(***************************************************************************)
ErrorIdle ==
    /\ vals = [s \in Slots |-> NoValue]
    /\ hist = [s \in Slots |-> NoHist]

InitMacro ==
    /\ ErrorIdle
    /\ pc = "start"
    /\ input \in FnInputs(MaxNodes) \cup ImplInputs(MaxMethods, MaxAttrs) \cup OtherInputs
    /\ item = <<>>
    /\ visitor = <<>>
    /\ next_item = 0
    /\ output = <<>>

\* parse_macro_input!(input as Item) gives Item::Fn (lines 12-14)
ParseFn ==
    /\ pc = "start"
    /\ ItemParse(input).tag = "Ok"
    /\ ItemParse(input).v.kind = "Fn"
    /\ item' = ItemParse(input).v.v
    /\ visitor' = MapErrNew(None, Some(ItemParse(input).v.v.ident))
    /\ pc' = "visit"
    /\ UNCHANGED <<input, next_item, output, errVars>>

\* parse_macro_input!(input as Item) gives Item::Impl (lines 12, 17-18)
ParseImpl ==
    /\ pc = "start"
    /\ ItemParse(input).tag = "Ok"
    /\ ItemParse(input).v.kind = "Impl"
    /\ item' = ItemParse(input).v.v
    /\ visitor' = MapErrNew(Some(ItemParse(input).v.v.self_ty), None)
    /\ next_item' = 1
    /\ pc' = IF ItemParse(input).v.v.items = <<>> THEN "emit" ELSE "visit"
    /\ UNCHANGED <<input, output, errVars>>

\* parse_macro_input! returns the parse error as a compile error
ParseError ==
    /\ pc = "start"
    /\ ItemParse(input).tag = "Err"
    /\ output' = [k |-> "compile_error", messages |-> ItemParse(input).e]
    /\ pc' = "error"
    /\ UNCHANGED <<input, item, visitor, next_item, errVars>>

\* visit_item_fn_mut(&mut f) (line 14)
VisitItemFn ==
    /\ pc = "visit"
    /\ item.k = "item_fn"
    /\ LET r == Visit(item, visitor) IN
        /\ item' = r.node
        /\ visitor' = r.st
        /\ pc' = IF r.st.panicked THEN "panic" ELSE "emit"
    /\ UNCHANGED <<input, next_item, output, errVars>>

\* visit_item_impl_mut(&mut i) (line 18), one impl item at a time
VisitImplItem ==
    /\ pc = "visit"
    /\ item.k = "item_impl"
    /\ next_item <= Len(item.items)
    /\ LET r == Visit(item.items[next_item], visitor) IN
        /\ item' = [item EXCEPT !.items[next_item] = r.node]
        /\ visitor' = r.st
        /\ pc' = IF r.st.panicked THEN "panic"
                 ELSE IF next_item = Len(item.items) THEN "emit" ELSE "visit"
    /\ next_item' = next_item + 1
    /\ UNCHANGED <<input, output, errVars>>

\* quote!(#f).into() / quote!(#i).into() (lines 15, 19)
Emit ==
    /\ pc = "emit"
    /\ output' = [k |-> "tokens", tree |-> item]
    /\ pc' = "done"
    /\ UNCHANGED <<input, item, visitor, next_item, errVars>>

NextMacro ==
    \/ ParseFn
    \/ ParseImpl
    \/ ParseError
    \/ VisitItemFn
    \/ VisitImplItem
    \/ Emit

SpecMacro == InitMacro /\ [][NextMacro]_vars

(***************************************************************************)
(* Properties of the macro                                                 *)
(***************************************************************************)
IsMarker(a) == a = "conerror"
NotMarker(a) == a # "conerror"
Marked(m) == m.k = "impl_item_fn" /\ SelectSeq(m.attrs, IsMarker) # <<>>
Unmarked(m) == m.k = "impl_item_fn" /\ SelectSeq(m.attrs, IsMarker) = <<>>

RECURSIVE HasTry(_)
RECURSIVE HasTrySeq(_)
HasTrySeq(ns) == \E j \in 1..Len(ns) : HasTry(ns[j])
HasTry(n) ==
    CASE n.k = "try" -> TRUE
      [] n.k = "call" -> HasTrySeq(n.args)
      [] n.k = "map_err" -> HasTrySeq(<<n.receiver, n.closure>>)
      [] n.k = "item_fn" -> HasTrySeq(n.block)
      [] n.k = "item_impl" -> HasTrySeq(n.items)
      [] n.k = "impl_item_fn" -> HasTrySeq(n.block)
      [] OTHER -> FALSE

\* C5: in the emitted code an opted-in method carries its attributes other
\* than the markers, in their order, and no marker.
C5_NoMarkerRemains ==
    (pc = "done" /\ input.syntax = "impl") =>
        \A j \in 1..Len(input.tree.items) :
            Marked(input.tree.items[j]) =>
                output.tree.items[j].attrs = SelectSeq(input.tree.items[j].attrs, NotMarker)

\* C6: a method of the impl block that carries no marker is, at every point
\* of the run and in the emitted code, exactly as it was written.
C6_UnmarkedUntouched ==
    (input.syntax = "impl" /\ pc # "start" /\ pc # "error") =>
        \A j \in 1..Len(input.tree.items) :
            Unmarked(input.tree.items[j]) =>
                /\ item.items[j] = input.tree.items[j]
                /\ pc = "done" => output.tree.items[j] = input.tree.items[j]

C6_Witness ==
    /\ pc = "done"
    /\ input.syntax = "impl"
    /\ Len(input.tree.items) = 2
    /\ Marked(input.tree.items[1])
    /\ output.tree.items[1] # input.tree.items[1]
    /\ Unmarked(input.tree.items[2])
    /\ input.tree.items[2].attrs = <<"inline">>
    /\ input.tree.items[2].block = <<Try(Call(<<Try(Path)>>))>>

\* every rewritten site in n passes func and module, where the sites of a
\* function or method declared inside n are held to that one's own name
RECURSIVE SitesNamed(_, _, _)
RECURSIVE SitesNamedSeq(_, _, _)
SitesNamedSeq(ns, func, module) == \A j \in 1..Len(ns) : SitesNamed(ns[j], func, module)
SitesNamed(n, func, module) ==
    CASE n.k = "try" -> SitesNamed(n.expr, func, module)
      [] n.k = "call" -> SitesNamedSeq(n.args, func, module)
      [] n.k = "map_err" ->
            /\ n.closure.func = func
            /\ n.closure.module = module
            /\ SitesNamed(n.receiver, func, module)
      [] n.k = "item_fn" -> SitesNamedSeq(n.block, n.ident, ModulePath)
      [] n.k = "item_impl" ->
            \A j \in 1..Len(n.items) :
                n.items[j].k = "impl_item_fn" =>
                    SitesNamedSeq(n.items[j].block, n.items[j].ident, TypeName(n.self_ty))
      [] OTHER -> TRUE

\* C7: every rewritten site passes the name of its own enclosing function or
\* method as func, and as module the enclosing type of a method, the module
\* path of a function.
C7_SiteNamesOwnFunction ==
    pc = "done" => SitesNamed(output.tree, "", ModulePath)

\* C8: the macro fails only on an input that parses neither as a function nor
\* as an impl block, and then with the errors of both attempts combined.
C8_FailsOnlyOnParseError ==
    /\ input.syntax \in {"fn", "impl"} => pc \notin {"panic", "error"}
    /\ pc = "error" => output = [k |-> "compile_error",
                                 messages |-> <<"expected impl", "expected fn">>]

\* n with the map_err call under each propagation expression taken off once,
\* and the attributes left aside
RECURSIVE Unwrapped(_)
RECURSIVE UnwrappedSeq(_)
UnwrappedSeq(ns) == [j \in 1..Len(ns) |-> Unwrapped(ns[j])]
Unwrapped(n) ==
    CASE n.k = "try" ->
            IF n.expr.k = "map_err" /\ ~HasTry(n.expr.closure)
            THEN Try(Unwrapped(n.expr.receiver))
            ELSE [k |-> "try not wrapped"]
      [] n.k = "call" -> Call(UnwrappedSeq(n.args))
      [] n.k = "item_fn" -> ItemFn(n.ident, UnwrappedSeq(n.block))
      [] n.k = "item_impl" -> ItemImpl(n.self_ty, UnwrappedSeq(n.items))
      [] n.k = "impl_item_fn" -> ImplItemFn(<<>>, n.ident, UnwrappedSeq(n.block))
      [] OTHER -> n

RECURSIVE NoAttrs(_)
RECURSIVE NoAttrsSeq(_)
NoAttrsSeq(ns) == [j \in 1..Len(ns) |-> NoAttrs(ns[j])]
NoAttrs(n) ==
    CASE n.k = "item_fn" -> ItemFn(n.ident, NoAttrsSeq(n.block))
      [] n.k = "item_impl" -> ItemImpl(n.self_ty, NoAttrsSeq(n.items))
      [] n.k = "impl_item_fn" -> ImplItemFn(<<>>, n.ident, NoAttrsSeq(n.block))
      [] OTHER -> n

EveryTryWrappedOnce ==
    /\ (pc = "done" /\ input.syntax = "fn") =>
            Unwrapped(output.tree) = NoAttrs(input.tree)
    /\ (pc = "done" /\ input.syntax = "impl") =>
            \A j \in 1..Len(input.tree.items) :
                Marked(input.tree.items[j]) =>
                    Unwrapped(output.tree.items[j]) = NoAttrs(input.tree.items[j])

\* the steps the run has left at most
StepsLeft ==
    CASE pc = "start" ->
            (IF input.syntax = "impl" THEN Len(input.tree.items) ELSE 1) + 2
      [] pc = "visit" ->
            (IF item.k = "item_impl" THEN Len(item.items) + 1 - next_item ELSE 1) + 1
      [] pc = "emit" -> 1
      [] OTHER -> 0

\* a run that has not returned or panicked has a step to take
NotStuck ==
    pc = "visit" =>
        \/ item.k = "item_fn"
        \/ item.k = "item_impl" /\ next_item \in 1..Len(item.items)

====
